---- MODULE Spec2Model ----
(***************************************************************************)
(* Model of draw_jobs.py: the qstat -f parser (job_from_qstat, interval,   *)
(* get_xfua_jobs) and the schedule renderer (plot_job_schedule).           *)
(*                                                                         *)
(* Python strings are TLA+ strings, read character by character with       *)
(* SubSeq; Python lists are sequences.  A datetime is a number of seconds, *)
(* a timedelta is a number of seconds.                                     *)
(***************************************************************************)
EXTENDS Integers, Sequences, FiniteSets, TLC

VARIABLES
    pc,         \* position of the program (or of the function under call)
    NODE_TYPE,  \* the module-level NODE_TYPE (line 23, reassigned at line 195)
    now,        \* what datetime.now() returns while the run parses and draws
    qstat_out,  \* stdout of "qstat -f"
    pbsnodes,   \* the "nodes" mapping of "pbsnodes -aF json", in source order
    job_info,   \* argument of a call of job_from_qstat
    s,          \* argument of a call of interval
    jobs,       \* the list built by get_xfua_jobs / handed to plot_job_schedule
    ret         \* what the last call returned or raised

vars == <<pc, NODE_TYPE, now, qstat_out, pbsnodes, job_info, s, jobs, ret>>

----------------------------------------------------------------------------
(* Bounds of the model.                                                    *)

MaxLines == 3       \* attribute / continuation lines of a generated block
MaxField == 1       \* small values of a time-span component
MaxDays == 1        \* small values of the days component
MaxBlocks == 2      \* blocks of a generated qstat text
MaxNodesPerJob == 3 \* node names in a generated exec_vnode list

----------------------------------------------------------------------------
(* Python str methods.                                                     *)

Char(str, i) == SubSeq(str, i, i)

From(str, i) == SubSeq(str, i, Len(str))

StartsAt(str, sub, i) ==
    /\ i + Len(sub) - 1 <= Len(str)
    /\ SubSeq(str, i, i + Len(sub) - 1) = sub

\* The lowest index i or above (1-based) at which sub starts in str, 0 when
\* there is none.
RECURSIVE FindFrom(_, _, _)
FindFrom(str, sub, i) ==
    IF i + Len(sub) - 1 > Len(str) THEN 0
    ELSE IF SubSeq(str, i, i + Len(sub) - 1) = sub THEN i
    ELSE FindFrom(str, sub, i + 1)

\* str.find(sub): the lowest 0-based index of sub in str, -1 when absent.
Find(str, sub) == FindFrom(str, sub, 1) - 1

\* str.split(sep) for a non-empty sep.
RECURSIVE Split(_, _)
Split(str, sep) ==
    LET i == Find(str, sep)
    IN  IF i = -1 THEN <<str>>
        ELSE <<SubSeq(str, 1, i)>> \o Split(From(str, i + Len(sep) + 1), sep)

\* str.replace(old, "", 1) for a non-empty old.
RemoveFirst(str, old) ==
    LET i == Find(str, old)
    IN  IF i = -1 THEN str
        ELSE SubSeq(str, 1, i) \o From(str, i + Len(old) + 1)

RECURSIVE LStripSet(_, _)
LStripSet(str, cs) ==
    IF Len(str) > 0 /\ Char(str, 1) \in cs THEN LStripSet(Tail(str), cs) ELSE str

RECURSIVE RStripSet(_, _)
RStripSet(str, cs) ==
    IF Len(str) > 0 /\ Char(str, Len(str)) \in cs
    THEN RStripSet(SubSeq(str, 1, Len(str) - 1), cs)
    ELSE str

WhiteSpace == {" ", "\t", "\n", "\r"}

\* str.strip()
Strip(str) == RStripSet(LStripSet(str, WhiteSpace), WhiteSpace)

\* str.strip(chars)
StripChars(str, cs) == RStripSet(LStripSet(str, cs), cs)

Digits == {"0", "1", "2", "3", "4", "5", "6", "7", "8", "9"}

DigitVal(c) ==
    CASE c = "0" -> 0 [] c = "1" -> 1 [] c = "2" -> 2 [] c = "3" -> 3
      [] c = "4" -> 4 [] c = "5" -> 5 [] c = "6" -> 6 [] c = "7" -> 7
      [] c = "8" -> 8 [] c = "9" -> 9

\* The length of the longest run of characters of cs that starts at index i.
RECURSIVE RunLen(_, _, _)
RunLen(str, i, cs) ==
    IF i <= Len(str) /\ Char(str, i) \in cs THEN 1 + RunLen(str, i + 1, cs) ELSE 0

\* The length of the longest run of characters outside cs that starts at i.
RECURSIVE RunLenNot(_, _, _)
RunLenNot(str, i, cs) ==
    IF i <= Len(str) /\ Char(str, i) \notin cs
    THEN 1 + RunLenNot(str, i + 1, cs)
    ELSE 0

\* int(str) of a string of decimal digits.
RECURSIVE ToInt(_)
ToInt(str) ==
    IF Len(str) = 0 THEN 0
    ELSE 10 * ToInt(SubSeq(str, 1, Len(str) - 1)) + DigitVal(Char(str, Len(str)))

IsDigits(str) == Len(str) > 0 /\ RunLen(str, 1, Digits) = Len(str)

----------------------------------------------------------------------------
(* interval (lines 42-46).                                                 *)

\* "(?P<hours>\d+):(?P<minutes>\d+):(?P<seconds>\d+)" matched at index i.
HmsMatch(str, i) ==
    LET h  == RunLen(str, i, Digits)
        mi == i + h + 1
        m  == RunLen(str, mi, Digits)
        si == mi + m + 1
        sl == RunLen(str, si, Digits)
    IN  IF /\ h > 0 /\ Char(str, i + h) = ":"
           /\ m > 0 /\ Char(str, mi + m) = ":"
           /\ sl > 0
        THEN [ok |-> TRUE,
              hours   |-> ToInt(SubSeq(str, i, i + h - 1)),
              minutes |-> ToInt(SubSeq(str, mi, mi + m - 1)),
              seconds |-> ToInt(SubSeq(str, si, si + sl - 1))]
        ELSE [ok |-> FALSE]

\* IntervalMatch with the days group never taking part.
IntervalMatchNoDays(str) ==
    LET d    == RunLen(str, 1, Digits)
        at   == IF d > 0 /\ StartsAt(str, " days, ", d + 1)
                THEN d + Len(" days, ") + 1 ELSE 1
        bare == HmsMatch(str, at)
    IN  IF bare.ok
        THEN [ok |-> TRUE, days |-> 0, hours |-> bare.hours,
              minutes |-> bare.minutes, seconds |-> bare.seconds]
        ELSE [ok |-> FALSE]

\* re.match of the whole pattern: the optional "(?P<days>\d+) days, " group is
\* tried first and given up when the rest does not match after it;
\* groupdict(0) gives 0 for a group that took no part.
IntervalMatch(str) ==
    LET d    == RunLen(str, 1, Digits)
        with == IF d > 0 /\ StartsAt(str, " days, ", d + 1)
                THEN HmsMatch(str, d + Len(" days, ") + 1)
                ELSE [ok |-> FALSE]
        bare == HmsMatch(str, 1)
    IN  IF with.ok
        THEN [ok |-> TRUE, days |-> ToInt(SubSeq(str, 1, d)),
              hours |-> with.hours, minutes |-> with.minutes,
              seconds |-> with.seconds]
        ELSE IF bare.ok
        THEN [ok |-> TRUE, days |-> 0, hours |-> bare.hours,
              minutes |-> bare.minutes, seconds |-> bare.seconds]
        ELSE [ok |-> FALSE]

\* timedelta(days=, hours=, minutes=, seconds=), as its total of seconds.
timedelta(days, hours, minutes, seconds) ==
    days * 86400 + hours * 3600 + minutes * 60 + seconds

\* None.groupdict raises AttributeError when the pattern does not match.
interval(str) ==
    LET d == IntervalMatch(str)
    IN  IF d.ok
        THEN [exc |-> "none",
              value |-> timedelta(d.days, d.hours, d.minutes, d.seconds)]
        ELSE [exc |-> "AttributeError"]

----------------------------------------------------------------------------
(* class Job (lines 25-36) and job_from_qstat (lines 48-109).              *)

\* datetime.now() as evaluated once, when the class body of Job runs.
ClassNow == 1000

\* The readings of datetime.now() later in the run.
Clock == {ClassNow + 1, ClassNow + 2}

Job ==
    [job_id |-> [type |-> "int", value |-> 0],
     job_name |-> "", job_state |-> "", job_owner |-> "", queue |-> "",
     nodect |-> 0, walltime |-> 0, eligible_time |-> ClassNow,
     exec_vnode |-> <<>>, start_time |-> ClassNow]

None == [kind |-> "None"]

\* datetime.strptime(str, "%c") on the timestamps the model's inputs use: a
\* text in the locale's date-and-time form gives its datetime, any other
\* text raises ValueError.
Strptime(str) ==
    CASE str = "Mon Jan  1 00:00:01 2001" -> [ok |-> TRUE, value |-> 2000]
      [] str = "Tue Jan  2 00:00:01 2001" -> [ok |-> TRUE, value |-> 3000]
      [] str = "Wed Jan  3 00:00:01 2001" -> [ok |-> TRUE, value |-> 4000]
      [] OTHER -> [ok |-> FALSE]

\* re.match(VAR_RE, line) with VAR_RE = "    ([^ =]*) = " (line 19).
VarMatch(line) ==
    LET k == RunLenNot(line, 5, {" ", "="})
    IN  IF StartsAt(line, "    ", 1) /\ StartsAt(line, " = ", 5 + k)
        THEN [ok |-> TRUE, group1 |-> SubSeq(line, 5, 4 + k),
              group0 |-> SubSeq(line, 1, 4 + k + 3)]
        ELSE [ok |-> FALSE]

\* Lines 52-53: the header split on ":"; the id stays a list unless the
\* header holds exactly one colon.
JobId(info) ==
    LET parts == Split(Split(info, "\n")[1], ":")
    IN  IF Len(parts) = 2
        THEN [type |-> "str", value |-> Strip(parts[2])]
        ELSE [type |-> "list", value |-> parts]

\* The locals of job_from_qstat when the loop starts (lines 50-58).
LoopStart(info) ==
    [j |-> [Job EXCEPT !.job_id = JobId(info)],
     exec_vnode |-> FALSE, has_stime |-> FALSE, in_vnode |-> FALSE,
     est_vnode |-> "", out |-> "run"]

\* EligibleTime without the except clause: the ValueError escapes.
EligibleTimeUncaught(st, rest, t) ==
    LET p == Strptime(rest)
    IN  IF p.ok THEN [st EXCEPT !.j.eligible_time = p.value]
        ELSE [st EXCEPT !.out = "ValueError"]

\* Lines 80-84: eligible_time, with its fallback on ValueError.
EligibleTime(st, rest, t) ==
    LET p == Strptime(rest)
    IN  [st EXCEPT !.j.eligible_time = IF p.ok THEN p.value ELSE t]

\* Lines 85-90: stime.
Stime(st, rest) ==
    LET p == Strptime(rest)
    IN  [st EXCEPT !.has_stime = TRUE,
                   !.j.start_time = IF p.ok THEN p.value ELSE @]

\* Lines 91-95: estimated.start_time, taken only while no stime was seen.
EstimatedStartTime(st, rest) ==
    LET p == Strptime(rest)
    IN  [st EXCEPT !.j.start_time = IF p.ok THEN p.value ELSE @]

\* Lines 72-75: queue, and the early return of None.
Queue(st, rest, nodeType) ==
    [st EXCEPT !.j.queue = rest,
               !.out = IF Find(rest, nodeType) = -1 THEN "None" ELSE @]

\* Lines 96-102: the two node-assignment fields.
ExecVnode(st, rest) ==
    [st EXCEPT !.in_vnode = TRUE, !.exec_vnode = TRUE, !.est_vnode = rest]

EstimatedExecVnode(st, rest) ==
    [st EXCEPT !.in_vnode = TRUE, !.est_vnode = rest]

\* One pass of the loop body (lines 61-104) on one line.
LoopBody(st0, line, nodeType, t) ==
    LET varmatch == VarMatch(line)
    IN  IF varmatch.ok
        THEN LET st      == [st0 EXCEPT !.in_vnode = FALSE]
                 varname == varmatch.group1
                 rest    == RemoveFirst(line, varmatch.group0)
             IN  CASE varname = "Job_Name" -> [st EXCEPT !.j.job_name = rest]
                   [] varname = "Job_Owner" ->
                        [st EXCEPT !.j.job_owner = Split(rest, "@")[1]]
                   [] varname = "job_state" -> [st EXCEPT !.j.job_state = rest]
                   [] varname = "queue" -> Queue(st, rest, nodeType)
                   [] varname = "Resource_List.nodect" ->
                        IF IsDigits(rest)
                        THEN [st EXCEPT !.j.nodect = ToInt(rest)]
                        ELSE [st EXCEPT !.out = "ValueError"]
                   [] varname = "Resource_List.walltime" ->
                        LET w == interval(rest)
                        IN  IF w.exc = "none"
                            THEN [st EXCEPT !.j.walltime = w.value]
                            ELSE [st EXCEPT !.out = w.exc]
                   [] varname = "eligible_time" -> EligibleTime(st, rest, t)
                   [] varname = "stime" -> Stime(st, rest)
                   [] varname = "estimated.start_time" /\ ~st.has_stime ->
                        EstimatedStartTime(st, rest)
                   [] varname = "exec_vnode" -> ExecVnode(st, rest)
                   [] varname = "estimated.exec_vnode" /\ ~st.exec_vnode ->
                        EstimatedExecVnode(st, rest)
                   [] OTHER -> st
        ELSE IF st0.in_vnode
        THEN [st0 EXCEPT !.est_vnode = @ \o Strip(line)]
        ELSE st0

\* The lines the loop visits: job_info.split("\n")[1:-1] (line 59).
LoopLines(info) ==
    LET all == Split(info, "\n")
    IN  SubSeq(all, 2, Len(all) - 1)

\* The for loop: it stops at the first return or exception.
RECURSIVE Loop(_, _, _, _)
Loop(st, lines, nodeType, t) ==
    IF lines = <<>> \/ st.out # "run" THEN st
    ELSE Loop(LoopBody(st, Head(lines), nodeType, t), Tail(lines), nodeType, t)

RECURSIVE NodeNames(_)
NodeNames(entries) ==
    IF entries = <<>> THEN <<>>
    ELSE <<StripChars(Split(Head(entries), ":")[1], {"("})>>
         \o NodeNames(Tail(entries))

\* Lines 106-108: the node names of the accumulated field.
CleanUp(est_vnode) ==
    LET names == NodeNames(Split(est_vnode, "+"))
    IN  IF Len(names) = 1 /\ names[1] = "" THEN <<>> ELSE names

\* The locals when the loop is over.
LoopEnd(info, nodeType, t) ==
    Loop(LoopStart(info), LoopLines(info), nodeType, t)

\* job_from_qstat(job_info): a Job, None, or the exception that escapes.
job_from_qstat(info, nodeType, t) ==
    LET st == LoopEnd(info, nodeType, t)
    IN  CASE st.out = "None" -> None
          [] st.out = "run" ->
               [kind |-> "Job", job |-> [st.j EXCEPT !.exec_vnode = CleanUp(st.est_vnode)]]
          [] OTHER -> [kind |-> "raise", exc |-> st.out]

----------------------------------------------------------------------------
(* get_xfua_jobs (lines 38-40) and the entry point (lines 193-196).        *)

RECURSIVE MapJobFromQstat(_, _, _)
MapJobFromQstat(blocks, nodeType, t) ==
    IF blocks = <<>> THEN <<>>
    ELSE <<job_from_qstat(Head(blocks), nodeType, t)>>
         \o MapJobFromQstat(Tail(blocks), nodeType, t)

\* [job_from_qstat(job) for job in stdout.split("\n\n")]
get_xfua_jobs(out, nodeType, t) ==
    MapJobFromQstat(Split(out, "\n\n"), nodeType, t)

IsNotNone(r) == r.kind # "None"

Unwrap(rs) == [i \in 1..Len(rs) |-> rs[i].job]

\* [job for job in get_xfua_jobs() if job is not None] (line 196)
NotNoneJobs(rs) == Unwrap(SelectSeq(rs, IsNotNone))

----------------------------------------------------------------------------
(* get_compute_node_list (lines 111-116) and plot_job_schedule (118-189).  *)

NodeMatches(v) == Find(v.Qlist, NODE_TYPE) >= 0

\* The OrderedDict of the nodes whose Qlist holds NODE_TYPE, in source order.
get_compute_node_list(all) == SelectSeq(all, NodeMatches)

\* list.index(x): the 0-based position of the first x, -1 for ValueError.
ListIndex(list, x) ==
    LET hits == {i \in 1..Len(list) : list[i] = x}
    IN  IF hits = {} THEN -1
        ELSE (CHOOSE i \in hits : \A k \in hits : i <= k) - 1

RECURSIVE Insert(_, _)
Insert(n, sorted) ==
    IF sorted = <<>> THEN <<n>>
    ELSE IF n <= Head(sorted) THEN <<n>> \o sorted
    ELSE <<Head(sorted)>> \o Insert(n, Tail(sorted))

RECURSIVE Sorted(_)
Sorted(list) ==
    IF list = <<>> THEN <<>> ELSE Insert(Head(list), Sorted(Tail(list)))

\* groupby(sorted(i_nodes), lambda n, c=count(): n-next(c)) (line 178): the
\* key of the element at 0-based position p is its value minus p, and a new
\* group starts wherever the key changes.  Each group is given as <<r[0], r[-1]>>.
RECURSIVE GroupRuns(_, _, _)
GroupRuns(list, p, open) ==
    IF p > Len(list)
    THEN IF open = <<>> THEN <<>> ELSE <<open>>
    ELSE IF open = <<>>
    THEN GroupRuns(list, p + 1, <<p, p>>)
    ELSE IF list[p] - (p - 1) = list[open[1]] - (open[1] - 1)
    THEN GroupRuns(list, p + 1, <<open[1], p>>)
    ELSE <<open>> \o GroupRuns(list, p + 1, <<p, p>>)

Ranges(i_nodes) ==
    LET srt == Sorted(i_nodes)
        gs  == GroupRuns(srt, 1, <<>>)
    IN  [g \in 1..Len(gs) |-> <<srt[gs[g][1]], srt[gs[g][2]]>>]

\* getpass.getuser()
username == "ann"

\* Lines 125-144: the memory-mode shading.  str.index raises ValueError when
\* "knl" is not in the first job's queue; a node without an mcdram entry
\* raises KeyError, the rows before it already shaded.
RECURSIVE ShadeMcdram(_, _)
ShadeMcdram(nodes, i) ==
    IF i > Len(nodes) THEN [exc |-> "none", patches |-> <<>>]
    ELSE IF nodes[i].mcdram = "absent" THEN [exc |-> "KeyError", patches |-> <<>>]
    ELSE LET more == ShadeMcdram(nodes, i + 1)
         IN  [exc |-> more.exc,
              patches |-> <<[kind |-> "mcdram", y |-> i - 1, h |-> 1, job |-> 0,
                             x |-> 0, w |-> 24 * 3600, label |-> FALSE,
                             color |-> <<"CMAP2", IF nodes[i].mcdram = "flat"
                                                  THEN 1 ELSE 0>>]>>
                          \o more.patches]

Background(js, nodes) ==
    IF Len(js) > 0
    THEN IF Find(js[1].queue, "knl") = -1
         THEN [exc |-> "ValueError", patches |-> <<>>]
         ELSE ShadeMcdram(nodes, 1)
    ELSE [exc |-> "none", patches |-> <<>>]

\* Lines 146-152: the offline rows.
RECURSIVE Offline(_, _)
Offline(nodes, i) ==
    IF i > Len(nodes) THEN <<>>
    ELSE (IF Find(nodes[i].state, "offline") >= 0
          THEN <<[kind |-> "offline", y |-> i - 1, h |-> 1, job |-> 0,
                  x |-> 0, w |-> 24 * 3600, label |-> FALSE,
                  color |-> <<"grey", 0>>]>>
          ELSE <<>>) \o Offline(nodes, i + 1)

NodeKeys(nodes) == [i \in 1..Len(nodes) |-> nodes[i].name]

\* Line 164: the row of each assigned node.
Rows(job, nodes) ==
    [k \in 1..Len(job.exec_vnode) |-> ListIndex(NodeKeys(nodes), job.exec_vnode[k])]

\* Lines 179-187 for one job: a rectangle per group, from tstart to tend
\* (here in seconds from now) and from row r[0] to row r[-1]; a rectangle of
\* more than one row gets a label, which splits job_id (a str method) and so
\* raises AttributeError, the rectangle already added, when job_id is a list.
JobPatches(job, i, nodes, color) ==
    LET rs    == Ranges(Rows(job, nodes))
        tall  == {g \in 1..Len(rs) : rs[g][2] - rs[g][1] > 0}
        fails == job.job_id.type # "str" /\ tall # {}
        last  == IF fails THEN CHOOSE g \in tall : \A k \in tall : g <= k
                 ELSE Len(rs)
    IN  [exc |-> IF fails THEN "AttributeError" ELSE "none",
         patches |-> [g \in 1..last |->
                        [kind |-> "job", y |-> rs[g][1],
                         h |-> rs[g][2] - rs[g][1] + 1, job |-> i,
                         x |-> job.start_time - now, w |-> job.walltime,
                         color |-> color, label |-> g \in tall]]]

\* Lines 162-187: the loop over the jobs, with the two colour counters; it
\* stops at the first exception (list.index raises ValueError for a node
\* name that is not in the inventory).
RECURSIVE DrawJobs(_, _, _, _, _)
DrawJobs(js, i, nodes, i_user, i_other) ==
    IF i > Len(js) THEN [exc |-> "none", patches |-> <<>>]
    ELSE IF Len(js[i].exec_vnode) > 0 /\ js[i].job_state # "H"
    THEN IF \E k \in 1..Len(js[i].exec_vnode) : Rows(js[i], nodes)[k] = -1
         THEN [exc |-> "ValueError", patches |-> <<>>]
         ELSE LET own  == js[i].job_owner = username
                  u    == IF own THEN i_user + 1 ELSE i_user
                  o    == IF own THEN i_other ELSE i_other + 1
                  mine == JobPatches(js[i], i, nodes,
                                     IF own THEN <<"CMAP3", u>> ELSE <<"CMAP", o>>)
                  more == IF mine.exc = "none" THEN DrawJobs(js, i + 1, nodes, u, o)
                          ELSE [exc |-> mine.exc, patches |-> <<>>]
              IN  [exc |-> more.exc, patches |-> mine.patches \o more.patches]
    ELSE DrawJobs(js, i + 1, nodes, i_user, i_other)

\* plot_job_schedule(jobs): the patches added to the axes, whether jobs.png
\* was written, and the exception that escapes ("none" when it returns).
plot_job_schedule(js, all) ==
    LET nodes == get_compute_node_list(all)
        bg    == Background(js, nodes)
        off   == Offline(nodes, 1)
        drawn == DrawJobs(js, 1, nodes, 0, 0)
    IN  IF bg.exc # "none"
        THEN [exc |-> bg.exc, patches |-> bg.patches, saved |-> FALSE]
        ELSE [exc |-> drawn.exc, patches |-> bg.patches \o off \o drawn.patches,
              saved |-> drawn.exc = "none"]

----------------------------------------------------------------------------
(* The inputs the model draws from.                                        *)

RECURSIVE Join(_, _)
Join(list, sep) ==
    IF list = <<>> THEN ""
    ELSE IF Len(list) = 1 THEN list[1]
    ELSE list[1] \o sep \o Join(Tail(list), sep)

SeqsUpTo(S, n) == UNION {[1..k -> S] : k \in 0..n}

\* The attribute a line sets, or the line itself for a continuation line.
KeyOf(line) == IF VarMatch(line).ok THEN VarMatch(line).group1 ELSE line

\* qstat prints each attribute of a job once.
Bodies(pool) ==
    {b \in SeqsUpTo(pool, MaxLines) :
        \A i, k \in 1..Len(b) : i # k => KeyOf(b[i]) # KeyOf(b[k])}

Header == "Job Id: 1.s"

\* A block as split off on a blank line, and as printed for one job (with
\* its final newline).
BlocksOf(pool) ==
    {Join(<<Header>> \o b, "\n") \o end : b \in Bodies(pool), end \in {"", "\n"}}

GoodStamp1 == "Mon Jan  1 00:00:01 2001"
GoodStamp2 == "Tue Jan  2 00:00:01 2001"
GoodStamp3 == "Wed Jan  3 00:00:01 2001"
BadStamp == "--"

QueuePool ==
    {"    queue = xfua", "    queue = other", "    Job_Name = sim",
     "    Job_Owner = ann@login1", "    job_state = R",
     "    Resource_List.nodect = 2", "    Resource_List.walltime = 01:00:00"}

VnodePool ==
    {"    exec_vnode = (n1:ncpus=1)+", "    exec_vnode = ",
     "    estimated.exec_vnode = (n2:ncpus=1)", "\t(n3:ncpus=1)",
     "\tn4:ncpus=2 ", "    comment = none"}

TimePool ==
    {"    eligible_time = " \o GoodStamp1, "    eligible_time = " \o BadStamp,
     "    stime = " \o GoodStamp2, "    stime = " \o BadStamp,
     "    estimated.start_time = " \o GoodStamp3,
     "    estimated.start_time = " \o BadStamp,
     "    queue = other", "    Job_Name = sim"}

NodeTypes == {"xfua", "xfuaknl"}

\* The inventory pbsnodes reports, in its order.
Inventory ==
    <<[name |-> "n1", Qlist |-> "xfuaknl", state |-> "free", mcdram |-> "flat"],
      [name |-> "gpu1", Qlist |-> "gpu", state |-> "free", mcdram |-> "absent"],
      [name |-> "n2", Qlist |-> "xfuaknl", state |-> "job-busy", mcdram |-> "cache"],
      [name |-> "n3", Qlist |-> "xfuaknl", state |-> "offline", mcdram |-> "flat"],
      [name |-> "n4", Qlist |-> "xfuaknl", state |-> "free", mcdram |-> "cache"],
      [name |-> "m1", Qlist |-> "xfua", state |-> "free", mcdram |-> "absent"]>>

----------------------------------------------------------------------------
(* The program: the entry point (lines 193-196).                           *)

BlockPool ==
    {"Job Id: 1.s\n    queue = xfuaknl\n    exec_vnode = (n1:ncpus=1)+(n2:ncpus=1)\n    job_state = R",
     "Job Id: 2.s\n    queue = other\n    job_state = Q",
     "Job Id: 3.s\n    Job_Name = sim\n    job_state = Q",
     "Job Id: 4.s\n    job_state = Q\n    queue = other",
     "Job Id: 5.s\n    queue = xfua\n    exec_vnode = (m1:ncpus=1)\n    job_state = R"}

\* The blocks with a blank line between them, and with or without the
\* blank line qstat -f prints after the last one.
QstatTexts ==
    {Join(bs, "\n\n") \o end : bs \in SeqsUpTo(BlockPool, MaxBlocks),
                               end \in {"", "\n\n"}}

Init ==
    /\ pc = "main"
    /\ NODE_TYPE = "xfua"
    /\ now \in Clock
    /\ qstat_out \in QstatTexts
    /\ pbsnodes = Inventory
    /\ job_info = "" /\ s = "" /\ jobs = <<>> /\ ret = None

\* Lines 194-195: the optional argument replaces NODE_TYPE.
MainArgv ==
    /\ pc = "main"
    /\ \E argv \in {<<"draw_jobs.py">>} \cup {<<"draw_jobs.py", a>> : a \in NodeTypes} :
          NODE_TYPE' = IF Len(argv) > 1 THEN argv[2] ELSE NODE_TYPE
    /\ pc' = "get_xfua_jobs"
    /\ UNCHANGED <<now, qstat_out, pbsnodes, job_info, s, jobs, ret>>

\* The exception that ends the list comprehension of get_xfua_jobs: that of
\* the first block whose parse raises, "none" when no parse raises.
FirstRaise(rs) ==
    LET bad == {i \in 1..Len(rs) : rs[i].kind = "raise"}
    IN  IF bad = {} THEN "none"
        ELSE rs[CHOOSE i \in bad : \A k \in bad : i <= k].exc

\* Line 196: get_xfua_jobs() builds the list of results; an exception of
\* job_from_qstat escapes the comprehension and ends the program.
GetXfuaJobs ==
    /\ pc = "get_xfua_jobs"
    /\ jobs' = get_xfua_jobs(qstat_out, NODE_TYPE, now)
    /\ ret' = IF FirstRaise(jobs') = "none" THEN ret
              ELSE [kind |-> "raise", exc |-> FirstRaise(jobs')]
    /\ pc' = IF FirstRaise(jobs') = "none" THEN "plot_job_schedule" ELSE "exit"
    /\ UNCHANGED <<NODE_TYPE, now, qstat_out, pbsnodes, job_info, s>>

\* Line 196: plot_job_schedule on the jobs that are not None.
PlotJobSchedule ==
    /\ pc = "plot_job_schedule"
    /\ ret' = [kind |-> "plot"] @@ plot_job_schedule(NotNoneJobs(jobs), pbsnodes)
    /\ pc' = "exit"
    /\ UNCHANGED <<NODE_TYPE, now, qstat_out, pbsnodes, job_info, s, jobs>>

Next == MainArgv \/ GetXfuaJobs \/ PlotJobSchedule

Spec == Init /\ [][Next]_vars

----------------------------------------------------------------------------
(* Calls of one function on inputs drawn from bounded sets.                *)

\* A call of job_from_qstat on one block.
InitParse(pool) ==
    /\ pc = "job_from_qstat"
    /\ NODE_TYPE \in NodeTypes
    /\ now \in Clock
    /\ job_info \in BlocksOf(pool) \cup {""}
    /\ qstat_out = "" /\ pbsnodes = <<>> /\ s = "" /\ jobs = <<>> /\ ret = None

JobFromQstat ==
    /\ pc = "job_from_qstat"
    /\ ret' = job_from_qstat(job_info, NODE_TYPE, now)
    /\ pc' = "returned"
    /\ UNCHANGED <<NODE_TYPE, now, qstat_out, pbsnodes, job_info, s, jobs>>

NextParse == JobFromQstat

SpecQueue == InitParse(QueuePool) /\ [][NextParse]_vars
SpecVnode == InitParse(VnodePool) /\ [][NextParse]_vars
SpecTime == InitParse(TimePool) /\ [][NextParse]_vars

\* A call of interval on one time span, printed as qstat prints it.
DigitChar(d) == SubSeq("0123456789", d + 1, d + 1)

RECURSIVE IntToStr(_)
IntToStr(n) ==
    IF n < 10 THEN DigitChar(n) ELSE IntToStr(n \div 10) \o DigitChar(n % 10)

\* Two digits at least when padded.
Field(n, pad) == IF pad /\ n < 10 THEN "0" \o IntToStr(n) ELSE IntToStr(n)

\* "D days, HH:MM:SS", or "HH:MM:SS" when d is -1 (no days part).
Format(d, h, m, sec, pad) ==
    (IF d = -1 THEN "" ELSE IntToStr(d) \o " days, ")
    \o Field(h, pad) \o ":" \o Field(m, pad) \o ":" \o Field(sec, pad)

FieldVals == (0..MaxField) \cup {59, 100}

DayVals == (-1..MaxDays) \cup {12}

InitInterval ==
    /\ pc = "interval"
    /\ s \in {Format(d, h, m, sec, pad) :
                d \in DayVals, h \in FieldVals, m \in FieldVals,
                sec \in FieldVals, pad \in BOOLEAN}
    /\ NODE_TYPE = "xfua" /\ now \in Clock
    /\ qstat_out = "" /\ pbsnodes = <<>> /\ job_info = "" /\ jobs = <<>>
    /\ ret = None

Interval ==
    /\ pc = "interval"
    /\ ret' = interval(s)
    /\ pc' = "returned"
    /\ UNCHANGED <<NODE_TYPE, now, qstat_out, pbsnodes, job_info, s, jobs>>

NextInterval == Interval

SpecInterval == InitInterval /\ [][NextInterval]_vars

\* A call of plot_job_schedule on a list of jobs.
JobNodes == {"n1", "n2", "n4"}

DrawnJobs ==
    {[Job EXCEPT !.job_id = [type |-> "str", value |-> "7.s"],
                 !.job_name = "sim", !.job_owner = o, !.job_state = st,
                 !.queue = q, !.exec_vnode = v, !.walltime = 3600] :
        o \in {"ann", "bob"}, st \in {"R", "H"}, q \in NodeTypes,
        v \in SeqsUpTo(JobNodes, MaxNodesPerJob)}

OtherJob ==
    [Job EXCEPT !.job_id = [type |-> "str", value |-> "8.s"],
                !.job_name = "fit", !.job_owner = "bob", !.job_state = "R",
                !.queue = "xfuaknl", !.exec_vnode = <<"n4", "n2">>,
                !.walltime = 7200]

AsResult(j) == [kind |-> "Job", job |-> j]

InitPlot ==
    /\ pc = "plot_job_schedule"
    /\ NODE_TYPE \in NodeTypes
    /\ now \in Clock
    /\ pbsnodes = Inventory
    /\ jobs \in {<<>>} \cup {<<AsResult(j)>> : j \in DrawnJobs}
                \cup {<<AsResult(j), AsResult(OtherJob)>> : j \in DrawnJobs}
    /\ qstat_out = "" /\ job_info = "" /\ s = "" /\ ret = None

NextPlot == PlotJobSchedule

SpecPlot == InitPlot /\ [][NextPlot]_vars

----------------------------------------------------------------------------
(* What the properties below say about a block, read off its text.         *)

\* The lines of a block after its "Job Id:" header.
BlockLines(info) == Tail(Split(info, "\n"))

\* An attribute line "    key = value", and its value.
IsAttr(line, key) == StartsAt(line, "    " \o key \o " = ", 1)

ValueOf(line, key) == From(line, Len("    " \o key \o " = ") + 1)

HasAttr(lines, key) == \E i \in 1..Len(lines) : IsAttr(lines[i], key)

AttrIndex(lines, key) == CHOOSE i \in 1..Len(lines) : IsAttr(lines[i], key)

\* The wrapped lines that follow line i - 1, trimmed and joined, up to the
\* next attribute line.
RECURSIVE Continuation(_, _)
Continuation(lines, i) ==
    IF i > Len(lines) \/ VarMatch(lines[i]).ok THEN ""
    ELSE Strip(lines[i]) \o Continuation(lines, i + 1)

\* The whole value of a field: its first line and its continuation lines.
FieldValue(lines, key) ==
    ValueOf(lines[AttrIndex(lines, key)], key)
    \o Continuation(lines, AttrIndex(lines, key) + 1)

\* The node-assignment field that counts: the actual one when the block has
\* it, else the estimated one, else no text at all.
EffectiveField(lines) ==
    IF HasAttr(lines, "exec_vnode") THEN FieldValue(lines, "exec_vnode")
    ELSE IF HasAttr(lines, "estimated.exec_vnode")
    THEN FieldValue(lines, "estimated.exec_vnode")
    ELSE ""

\* The name of one entry: the text before its first colon, without a
\* leading "(".
EntryName(e) ==
    LET before == Split(e, ":")[1]
    IN  IF StartsAt(before, "(", 1) THEN Tail(before) ELSE before

\* The names of the entries of a field value; none for the empty value.
EntryNames(value) ==
    IF value = "" THEN <<>>
    ELSE [k \in 1..Len(Split(value, "+")) |-> EntryName(Split(value, "+")[k])]

Range(list) == {list[k] : k \in 1..Len(list)}

\* An entry as qstat prints it, and a field value of such entries.
Entries ==
    [paren : BOOLEAN, name : {"n1", "n2", "n3", "n4"},
     spec : {"ncpus=1", "ncpus=2"}]

RenderEntry(e) ==
    IF e.paren THEN "(" \o e.name \o ":" \o e.spec \o ")"
    ELSE e.name \o ":" \o e.spec

RenderField(es) == Join([k \in 1..Len(es) |-> RenderEntry(es[k])], "+")

EntryLists == {es \in SeqsUpTo(Entries, 2) : es # <<>>}

----------------------------------------------------------------------------
(* The queue filter.                                                       *)

ForeignQueueLine(lines) ==
    \E i \in 1..Len(lines) :
        /\ IsAttr(lines[i], "queue")
        /\ Find(ValueOf(lines[i], "queue"), NODE_TYPE) = -1

\* C1: a block with a queue line whose value does not hold NODE_TYPE parses
\* to None, wherever the queue line stands among the lines of the block.
C1_ForeignQueueGivesNone ==
    (pc = "returned" /\ ForeignQueueLine(BlockLines(job_info)))
        => ret.kind = "None"

----------------------------------------------------------------------------
(* The node-assignment fields.                                             *)

\* C4: with an exec_vnode field in the block, every node name of the record
\* comes from that field and its continuation lines, none from
\* estimated.exec_vnode; with only estimated.exec_vnode, from that one.
C4_ActualFieldWins ==
    (pc = "returned" /\ ret.kind = "Job") =>
        LET lines == BlockLines(job_info)
        IN  /\ HasAttr(lines, "exec_vnode") =>
                 Range(ret.job.exec_vnode)
                    \subseteq Range(EntryNames(FieldValue(lines, "exec_vnode")))
                              \cup {""}
            /\ (~HasAttr(lines, "exec_vnode")
                    /\ HasAttr(lines, "estimated.exec_vnode")) =>
                 Range(ret.job.exec_vnode)
                    \subseteq Range(EntryNames(
                                  FieldValue(lines, "estimated.exec_vnode")))
                              \cup {""}

\* The key of the node-assignment field that counts, "" when there is none.
EffectiveKey(lines) ==
    IF HasAttr(lines, "exec_vnode") THEN "exec_vnode"
    ELSE IF HasAttr(lines, "estimated.exec_vnode") THEN "estimated.exec_vnode"
    ELSE ""

\* The field that counts is wrapped: a continuation line follows its first line.
Wrapped(lines) ==
    /\ EffectiveKey(lines) # ""
    /\ Continuation(lines, AttrIndex(lines, EffectiveKey(lines)) + 1) # ""

\* C5: the node list of a wrapped field is computed from the field's first
\* line followed by every continuation line up to the next attribute line,
\* each trimmed; lines after that attribute line add nothing.
C5_ContinuationLinesAppended ==
    (pc = "returned" /\ ret.kind = "Job" /\ Wrapped(BlockLines(job_info))) =>
        ret.job.exec_vnode = CleanUp(EffectiveField(BlockLines(job_info)))

\* C6: a block whose node-assignment field reads e1+...+en gives the node
\* list <<name(e1), ..., name(en)>>, and an empty field gives the empty list.
C6_NodeListOfEntries ==
    (pc = "returned" /\ ret.kind = "Job") =>
        /\ \A es \in EntryLists :
              EffectiveField(BlockLines(job_info)) = RenderField(es)
                 => ret.job.exec_vnode = [k \in 1..Len(es) |-> es[k].name]
        /\ EffectiveField(BlockLines(job_info)) = ""
              => ret.job.exec_vnode = <<>>

----------------------------------------------------------------------------
(* The timestamps.                                                         *)

\* The start time a block asks for: that of its stime line when it has one,
\* else that of its estimated.start_time line, and the default where the
\* line is missing or its timestamp does not parse.
StampOr(text, default) ==
    IF Strptime(text).ok THEN Strptime(text).value ELSE default

WantedStart(lines) ==
    IF HasAttr(lines, "stime")
    THEN StampOr(ValueOf(lines[AttrIndex(lines, "stime")], "stime"),
                 Job.start_time)
    ELSE IF HasAttr(lines, "estimated.start_time")
    THEN StampOr(ValueOf(lines[AttrIndex(lines, "estimated.start_time")],
                         "estimated.start_time"), Job.start_time)
    ELSE Job.start_time

\* The final line of the block is none of the two start-time lines.
StartLinesRead(lines) ==
    /\ lines # <<>>
    /\ ~IsAttr(lines[Len(lines)], "stime")
    /\ ~IsAttr(lines[Len(lines)], "estimated.start_time")

\* C9: the start time is that of the stime line when the block has one and
\* never that of estimated.start_time then; that of estimated.start_time when
\* it is the only one; a timestamp that does not parse leaves the default.
C9_ActualStartWins ==
    (pc = "returned" /\ ret.kind = "Job"
        /\ StartLinesRead(BlockLines(job_info))) =>
        ret.job.start_time = WantedStart(BlockLines(job_info))

\* The block with the value of its eligible_time line replaced.
WithEligible(info, text) ==
    LET all == Split(info, "\n")
        i   == 1 + AttrIndex(Tail(all), "eligible_time")
    IN  Join([k \in 1..Len(all) |->
                IF k = i THEN "    eligible_time = " \o text ELSE all[k]], "\n")

BadEligible(lines) ==
    /\ HasAttr(lines, "eligible_time")
    /\ ~Strptime(ValueOf(lines[AttrIndex(lines, "eligible_time")],
                         "eligible_time")).ok

\* The loop reads every line of the block but the header and the final one.
ReadByLoop(lines, key) == AttrIndex(lines, key) < Len(lines)

----------------------------------------------------------------------------
(* interval.                                                               *)

\* C7: "D days, HH:MM:SS" and "HH:MM:SS" give D*86400 + HH*3600 + MM*60 + SS
\* seconds, D being 0 when the days part is absent.
C7_IntervalSeconds ==
    pc = "returned" =>
        \A d \in DayVals, h \in FieldVals, m \in FieldVals,
           sec \in FieldVals, pad \in BOOLEAN :
            s = Format(d, h, m, sec, pad) =>
                /\ ret.exc = "none"
                /\ ret.value = (IF d = -1 THEN 0 ELSE d) * 86400
                                 + h * 3600 + m * 60 + sec

\* A span with a days part and one without, both converted.
C7_Witness ==
    /\ pc = "returned"
    /\ \/ s = "12 days, 01:59:100" /\ ret.value = 12 * 86400 + 3600 + 59 * 60 + 100
       \/ s = "100:0:59" /\ ret.value = 100 * 3600 + 59

----------------------------------------------------------------------------
(* The pipeline.                                                           *)

\* C10: every record handed to plot_job_schedule has a queue that holds
\* NODE_TYPE and a job id that is a string.
C10_PlottedJobsAreFiltered ==
    pc = "plot_job_schedule" =>
        \A i \in 1..Len(NotNoneJobs(jobs)) :
            /\ Find(NotNoneJobs(jobs)[i].queue, NODE_TYPE) >= 0
            /\ NotNoneJobs(jobs)[i].job_id.type = "str"

----------------------------------------------------------------------------
(* The renderer.                                                           *)

\* The rectangles of job i, as <<first row, last row>>, in drawing order.
JobRects(i) ==
    LET mine == SelectSeq(ret.patches,
                          LAMBDA p : p.kind = "job" /\ p.job = i)
    IN  [k \in 1..Len(mine) |-> <<mine[k].y, mine[k].y + mine[k].h - 1>>]

\* The rows of the nodes of a job, and their maximal runs of consecutive rows.
RowSet(job) ==
    {ListIndex(NodeKeys(get_compute_node_list(pbsnodes)), n) :
        n \in Range(job.exec_vnode)}

MaximalRuns(rows) ==
    {<<lo, hi>> \in rows \X rows :
        /\ lo <= hi
        /\ \A r \in lo..hi : r \in rows
        /\ (lo - 1) \notin rows
        /\ (hi + 1) \notin rows}

IsDrawn(job) == Len(job.exec_vnode) > 0 /\ job.job_state # "H"

\* C2: the rectangles of a drawn job are its maximal runs of rows, one
\* rectangle for each run, whatever its node list.
C2_OneRectanglePerRun ==
    (pc = "exit" /\ ret.kind = "plot" /\ ret.exc = "none") =>
        \A i \in 1..Len(NotNoneJobs(jobs)) :
            IsDrawn(NotNoneJobs(jobs)[i]) =>
                /\ Range(JobRects(i)) = MaximalRuns(RowSet(NotNoneJobs(jobs)[i]))
                /\ Len(JobRects(i))
                     = Cardinality(MaximalRuns(RowSet(NotNoneJobs(jobs)[i])))

\* C3: with a first job whose queue does not hold "knl", no memory-mode
\* rectangle is added and the drawing runs to the end: no exception, the
\* image written.
C3_NoKnlSkipsShading ==
    (pc = "exit" /\ ret.kind = "plot" /\ Len(NotNoneJobs(jobs)) > 0
        /\ Find(NotNoneJobs(jobs)[1].queue, "knl") = -1) =>
        /\ ret.exc = "none"
        /\ ret.saved
        /\ \A k \in 1..Len(ret.patches) : ret.patches[k].kind # "mcdram"

====
